---- MODULE Spec2Model ----
(***************************************************************************)
(* Model of the Siri command dispatcher of egmp-bluelink-scriptable:       *)
(* processSiriRequest, its command handlers, blRequest and the shared      *)
(* commandMap.                                                             *)
(*                                                                         *)
(* A JavaScript string is a sequence of one-character strings, so that     *)
(* includes, split and toLocaleLowerCase are computed, not assumed.        *)
(* Values the platform formats (dates) are single opaque elements.         *)
(***************************************************************************)
EXTENDS Integers, Sequences, FiniteSets, TLC

VARIABLES
  commandMap,        \* the module-level command list (shared by all invocations)
  pc,                \* position of the current processSiriRequest invocation
  shortcutParameter, \* its input text
  config,            \* its config
  found,             \* index in commandMap of the entry whose handler was called, 0 if none
  handlerCalls,      \* handlers called by this invocation, in order
  blCalls,           \* vehicle-client calls made by this invocation, in order
  type,              \* blRequest's parameters
  message,
  payload,
  gotFirstCallback,  \* blRequest's locals
  counter,
  start,
  duration,
  now,               \* Date.now()
  sleeping,          \* the argument of the sleep() being awaited, 0 if none
  sleeps,            \* the sleeps this invocation has completed: how long, and where
  callbacks,         \* how often the vehicle client has invoked blRequest's callback
  firstAck,          \* the callback's first run: where blRequest was, after how many sleeps
  logs,              \* the lines logger.log has written in this invocation
  late,              \* how many sleeps of this invocation took longer than asked
  unawaited,         \* the promise of the client call that is not awaited
  failure,           \* the client call that threw or rejected while awaited, and its error
  thrown,            \* the error processSiriRequest rejected with, "" if none
  returned,          \* what the awaited handler returned
  currentVersion,    \* Version: the version of the running script
  githubLatestRelease, \* Version: the latest release, once fetched
  pending,           \* Version: the calls that are suspended at an await
  prompt,            \* Version: what promptForUpdate resolved with
  compared,          \* Version: the release version promptForUpdate compared
  releaseVersion,    \* Version: what getReleaseVersion resolved with
  released,          \* Version: what getRelease resolved with
  calls,             \* overlapping blRequest calls: the locals of each
  clock,             \* overlapping blRequest calls: the wall clock
  response           \* what processSiriRequest returned

vars == <<commandMap, pc, shortcutParameter, config, found, handlerCalls, blCalls,
          type, message, payload, gotFirstCallback, counter, start, duration,
          now, sleeping, sleeps, logs, late, callbacks, firstAck, unawaited, failure, thrown,
          returned, response, currentVersion, githubLatestRelease, pending, prompt, compared,
          releaseVersion, released, calls, clock>>

\* the program's variables
siri == <<commandMap, pc, shortcutParameter, config, found, handlerCalls, blCalls,
          type, message, payload, gotFirstCallback, counter, start, duration,
          now, sleeping, sleeps, logs, late, callbacks, firstAck, unawaited, failure, thrown,
          returned, response>>
\* the variables of the Version object
release == <<currentVersion, githubLatestRelease, pending, prompt, compared, releaseVersion,
            released>>
\* the variables of blRequest calls that overlap
overlap == <<calls, clock>>

----------------------------------------------------------------------------
(* Bounds of the model *)

\* custom entries the shared commandMap may accumulate over all invocations
MaxCustomEntries == 3
\* invocations of blRequest's callback by the vehicle client, per request
MaxCallbacks == 2
\* sleeps of one invocation that take longer than asked
MaxLateSleeps == 1
\* the same under the specifications that keep the list short
MaxFewCustomEntries == 1
\* calls of the Version object that are suspended at one time
MaxPending == 2

\* how much longer than asked a sleep may take
Jitters == {0, 250}
\* errors a vehicle-client call may fail with
Errors == {"auth", "network"}
\* readings of the wall clock at which an invocation may begin
StartTimes == {1000}

----------------------------------------------------------------------------
(* Strings *)

UpperCase == <<"A","B","C","D","E","F","G","H","I","J","K","L","M","N","O","P","Q","R","S","T","U","V","W","X","Y","Z">>
LowerCase == <<"a","b","c","d","e","f","g","h","i","j","k","l","m","n","o","p","q","r","s","t","u","v","w","x","y","z">>
Digits == <<"0","1","2","3","4","5","6","7","8","9">>

LowerChar(c) ==
  IF \E i \in 1..Len(UpperCase) : UpperCase[i] = c
  THEN LowerCase[CHOOSE i \in 1..Len(UpperCase) : UpperCase[i] = c]
  ELSE c

\* String.prototype.toLocaleLowerCase
toLocaleLowerCase(s) == [i \in 1..Len(s) |-> LowerChar(s[i])]

\* String.prototype.includes
includes(s, w) ==
  \E i \in 1..(Len(s) - Len(w) + 1) : SubSeq(s, i, i + Len(w) - 1) = w

\* index of the first occurrence of character c in s, 0 if none
indexOf(s, c) ==
  IF \E i \in 1..Len(s) : s[i] = c
  THEN CHOOSE i \in 1..Len(s) : s[i] = c /\ \A j \in 1..(i - 1) : s[j] # c
  ELSE 0

\* String.prototype.split(' ')
RECURSIVE split(_)
split(s) ==
  LET i == indexOf(s, " ")
  IN  IF i = 0 THEN <<s>>
      ELSE <<SubSeq(s, 1, i - 1)>> \o split(SubSeq(s, i + 1, Len(s)))

\* a non-negative number in a template literal
RECURSIVE numberToString(_)
numberToString(n) ==
  IF n < 10 THEN <<Digits[n + 1]>>
  ELSE numberToString(n \div 10) \o <<Digits[(n % 10) + 1]>>

----------------------------------------------------------------------------
(* The command list *)

\* an optional value: <<>> is undefined, <<v>> is v
Undefined == <<>>
Some(v) == <<v>>

getRemoteStatusEntry ==
  [words |-> <<<<"s","t","a","t","u","s">>, <<"r","e","m","o","t","e">>>>, function |-> "getRemoteStatus", data |-> Undefined]
getStatusEntry ==
  [words |-> <<<<"s","t","a","t","u","s">>>>, function |-> "getStatus", data |-> Undefined]
warmEntry ==
  [words |-> <<<<"w","a","r","m">>>>, function |-> "warm", data |-> Undefined]
coolEntry ==
  [words |-> <<<<"c","o","o","l">>>>, function |-> "cool", data |-> Undefined]
climateOffEntry ==
  [words |-> <<<<"c","l","i","m","a","t","e">>, <<"o","f","f">>>>, function |-> "climateOff", data |-> Undefined]
unlockEntry ==
  [words |-> <<<<"u","n","l","o","c","k">>>>, function |-> "unlock", data |-> Undefined]
lockEntry ==
  [words |-> <<<<"l","o","c","k">>>>, function |-> "lock", data |-> Undefined]
startChargeEntry ==
  [words |-> <<<<"s","t","a","r","t">>, <<"c","h","a","r","g","i","n","g">>>>, function |-> "startCharge", data |-> Undefined]
stopChargeEntry ==
  [words |-> <<<<"s","t","o","p">>, <<"c","h","a","r","g","i","n","g">>>>, function |-> "stopCharge", data |-> Undefined]

\* a list that tests "lock" before "unlock"
builtinCommandsLockFirst ==
  << getRemoteStatusEntry, getStatusEntry, warmEntry, coolEntry, climateOffEntry,
     lockEntry, unlockEntry, startChargeEntry, stopChargeEntry >>

\* the initial value of commandMap: order matters
builtinCommands ==
  << getRemoteStatusEntry, getStatusEntry, warmEntry, coolEntry, climateOffEntry,
     unlockEntry, lockEntry, startChargeEntry, stopChargeEntry >>

\* the entry processSiriRequest pushes for one custom climate
customEntry(value) ==
  [words |-> split(value.name) \o <<<<"c","l","i","m","a","t","e">>>>,
   function |-> "customClimate",
   data |-> Some(value)]

\* a loop that puts the custom entries in front of the list (unshift)
pushCustomClimatesInFront(commands, customClimates) ==
  [k \in 1..Len(customClimates) |-> customEntry(customClimates[k])] \o commands

\* commands after the push loop over config.customClimates
RECURSIVE pushCustomClimates(_, _)
pushCustomClimates(commands, customClimates) ==
  IF customClimates = <<>> THEN commands
  ELSE pushCustomClimates(Append(commands, customEntry(Head(customClimates))),
                          Tail(customClimates))

\* an inner loop that forgets to lower-case the input text
RECURSIVE wordsFoundCaseSensitive(_, _, _)
wordsFoundCaseSensitive(text, words, k) ==
  IF k > Len(words) THEN TRUE
  ELSE IF ~includes(text, toLocaleLowerCase(words[k])) THEN FALSE
  ELSE wordsFoundCaseSensitive(text, words, k + 1)

\* the inner loop: found stays true unless some word is missing (then break)
RECURSIVE wordsFound(_, _, _)
wordsFound(text, words, k) ==
  IF k > Len(words) THEN TRUE
  ELSE IF ~includes(toLocaleLowerCase(text), toLocaleLowerCase(words[k])) THEN FALSE
  ELSE wordsFound(text, words, k + 1)

\* an outer loop that does not return at the first entry found: the last one wins
RECURSIVE detectCommandLast(_, _, _)
detectCommandLast(text, commands, i) ==
  IF i > Len(commands) THEN 0
  ELSE LET later == detectCommandLast(text, commands, i + 1)
       IN  IF later # 0 THEN later
           ELSE IF wordsFound(text, commands[i].words, 1) THEN i
           ELSE 0

\* the outer loop: index of the first entry with found = true, 0 if the loop ends
RECURSIVE detectCommand(_, _, _)
detectCommand(text, commands, i) ==
  IF i > Len(commands) THEN 0
  ELSE IF wordsFound(text, commands[i].words, 1) THEN i
  ELSE detectCommand(text, commands, i + 1)

\* a fallback that echoes the lower-cased text
unsupportedLowered(param) ==
  <<"Y","o","u"," ","a","s","k","e","d"," ","m","e"," ">> \o toLocaleLowerCase(param) \o <<" ","a","n","d"," ","i"," ","d","o","n","t"," ","s","u","p","p","o","r","t"," ","t","h","a","t"," ","c","o","m","m","a","n","d">>

\* the string returned when no entry matches
unsupported(param) ==
  <<"Y","o","u"," ","a","s","k","e","d"," ","m","e"," ">> \o param \o <<" ","a","n","d"," ","i"," ","d","o","n","t"," ","s","u","p","p","o","r","t"," ","t","h","a","t"," ","c","o","m","m","a","n","d">>

----------------------------------------------------------------------------
(* Program constants *)

\* blRequest: while (... counter < 10)
PollLimit == 10
\* blRequest: await sleep(500)
PollSleep == 500
\* blRequest: if (duration < 3000) await sleep(3000 - duration)
MinDuration == 3000
\* getRemoteStatus: await sleep(3000)
RemoteStatusSleep == 3000
\* warm, cool, climateOff: durationMinutes: 15
ClimateMinutes == 15

----------------------------------------------------------------------------
(* Inputs: configs, vehicle status snapshots, phrases *)

EcoA ==
  [name |-> <<"E","c","o"," ","M","o","d","e">>, temp |-> 20, frontDefrost |-> FALSE, rearDefrost |-> FALSE,
   steering |-> FALSE, durationMinutes |-> 10]
\* the same preset name with other settings, and an enable field of its own
EcoB ==
  [name |-> <<"E","c","o"," ","M","o","d","e">>, temp |-> 22, frontDefrost |-> TRUE, rearDefrost |-> FALSE,
   steering |-> FALSE, durationMinutes |-> 10, enable |-> FALSE]
Night ==
  [name |-> <<"N","i","g","h","t">>, temp |-> 18, frontDefrost |-> FALSE, rearDefrost |-> TRUE,
   steering |-> TRUE, durationMinutes |-> 30]

Configs ==
  { [customClimates |-> <<>>, debugLogging |-> FALSE],
    [customClimates |-> <<EcoA>>, debugLogging |-> TRUE],
    [customClimates |-> <<Night, EcoB>>, debugLogging |-> FALSE] }

\* configs that differ in debugLogging only
LogConfigs ==
  { [customClimates |-> cc, debugLogging |-> dl] : cc \in { <<>>, <<EcoA>> }, dl \in BOOLEAN }

\* bl.getConfig()
BlConfig == [climateTempWarm |-> 24, climateTempCold |-> 17]

Statuses == {
  [car |-> [nickName |-> <<"I","o","n","i","q">>, modelName |-> <<"K","o","n","a">>, modelYear |-> 2024],
   status |-> [soc |-> 80, locked |-> TRUE, climate |-> FALSE, isCharging |-> FALSE,
               isPluggedIn |-> TRUE, chargingPower |-> 0]],
  [car |-> [nickName |-> <<>>, modelName |-> <<"K","o","n","a">>, modelYear |-> 2024],
   status |-> [soc |-> 7, locked |-> FALSE, climate |-> TRUE, isCharging |-> TRUE,
               isPluggedIn |-> TRUE, chargingPower |-> 11]] }

Inputs == {
  <<"w","h","a","t","'","s"," ","m","y"," ","c","a","r"," ","s","t","a","t","u","s">>,
  <<"r","e","m","o","t","e"," ","s","t","a","t","u","s">>,
  <<"S","t","a","t","u","s"," ","o","f"," ","t","h","e"," ","R","E","M","O","T","E">>,
  <<"p","r","e","-","w","a","r","m"," ","m","y"," ","c","a","r">>,
  <<"c","o","o","l">>,
  <<"t","u","r","n"," ","t","h","e"," ","c","l","i","m","a","t","e"," ","o","f","f">>,
  <<"O","f","f"," ","w","i","t","h"," ","t","h","e"," ","C","l","i","m","a","t","e">>,
  <<"U","n","l","o","c","k">>,
  <<"u","n","l","o","c","k"," ","m","y"," ","c","a","r"," ","s","t","a","t","u","s">>,
  <<"l","o","c","k">>,
  <<"b","l","o","c","k">>,
  <<"l","o","c","k"," ","a","n","d"," ","u","n","l","o","c","k">>,
  <<"s","t","a","r","t"," ","c","h","a","r","g","i","n","g">>,
  <<"C","h","a","r","g","i","n","g",":"," ","S","T","O","P">>,
  <<"c","h","a","r","g","i","n","g">>,
  <<"t","u","r","n"," ","o","n"," ","e","c","o"," ","m","o","d","e"," ","c","l","i","m","a","t","e">>,
  <<"c","l","i","m","a","t","e"," ","i","n"," ","M","o","d","e"," ","E","c","o"," ","a","n","d"," ","u","n","l","o","c","k">>,
  <<"e","c","o"," ","c","l","i","m","a","t","e">>,
  <<"n","i","g","h","t"," ","c","l","i","m","a","t","e">>,
  <<"H","e","l","l","o">>,
  <<>> }

----------------------------------------------------------------------------
(* Handlers' strings and payloads *)

Issued == <<"I","'","v","e"," ","i","s","s","u","e","d"," ","a"," ","r","e","q","u","e","s","t"," ","t","o"," ">>

\* status.car.nickName || `your ${status.car.modelName}`
carName(status) ==
  IF status.car.nickName # <<>> THEN status.car.nickName
  ELSE <<"y","o","u","r"," ">> \o status.car.modelName

warmMessage(status) == Issued \o <<"p","r","e","-","w","a","r","m"," ">> \o carName(status) \o <<".">>
coolMessage(status) == Issued \o <<"p","r","e","-","c","o","o","l"," ">> \o carName(status) \o <<".">>
climateOffMessage(status) ==
  Issued \o <<"t","u","r","n"," ","o","f","f"," ","t","h","e"," ","c","l","i","m","a","t","e"," ","o","n"," ">> \o carName(status) \o <<".">>
customClimateMessage(status, data) ==
  Issued \o <<"t","u","r","n"," ","o","n"," ","c","l","i","m","a","t","e"," ","s","e","t","t","i","n","g"," ">> \o data.name \o <<" ","o","n"," ">> \o carName(status) \o <<".">>
lockMessage(status) == Issued \o <<"l","o","c","k"," ">> \o carName(status) \o <<".">>
unlockMessage(status) == Issued \o <<"u","n","l","o","c","k"," ">> \o carName(status) \o <<".">>
startChargeMessage(status) == Issued \o <<"s","t","a","r","t"," ","c","h","a","r","g","i","n","g"," ">> \o carName(status) \o <<".">>
stopChargeMessage(status) == Issued \o <<"s","t","o","p"," ","c","h","a","r","g","i","n","g"," ">> \o carName(status) \o <<".">>

warmPayload ==
  [enable |-> TRUE, frontDefrost |-> TRUE, rearDefrost |-> TRUE, steering |-> TRUE,
   temp |-> BlConfig.climateTempWarm, durationMinutes |-> ClimateMinutes]
coolPayload ==
  [enable |-> TRUE, frontDefrost |-> FALSE, rearDefrost |-> FALSE, steering |-> FALSE,
   temp |-> BlConfig.climateTempCold, durationMinutes |-> ClimateMinutes]
climateOffPayload ==
  [enable |-> FALSE, frontDefrost |-> FALSE, rearDefrost |-> FALSE, steering |-> FALSE,
   temp |-> BlConfig.climateTempCold, durationMinutes |-> ClimateMinutes]
\* { ...data, enable: true }
customClimatePayload(data) ==
  [k \in DOMAIN data \cup {"enable"} |-> IF k = "enable" THEN TRUE ELSE data[k]]

remoteStatusMessage ==
  <<"I","'","v","e"," ","i","s","s","u","e","d"," ","a"," ","r","e","m","o","t","e"," ","s","t","a","t","u","s"," ","r","e","q","u","e","s","t","."," ","A","s","k"," ","m","e"," ","f","o","r"," ","t","h","e"," ","n","o","r","m","a","l"," ","s","t","a","t","u","s"," ","a","g","a","i","n"," ","i","n"," ","3","0"," ","s","e","c","o","n","d","s"," ","a","n","d"," ","I"," ","w","i","l","l"," ","h","a","v","e"," ","y","o","u","r"," ","a","n","s","w","e","r",".">>

\* getStatus's sentence; the two formatted dates are opaque elements
statusMessage(status) ==
  LET name == IF status.car.nickName # <<>> THEN status.car.nickName
              ELSE numberToString(status.car.modelYear)
      r1 == name \o <<"'","s"," ","b","a","t","t","e","r","y"," ","i","s"," ","a","t"," ">> \o numberToString(status.status.soc)
            \o <<"%"," ","a","n","d"," ">>
            \o (IF status.status.locked THEN <<"l","o","c","k","e","d">> ELSE <<"u","n","-","l","o","c","k","e","d">>)
      r2 == IF status.status.climate
            THEN r1 \o <<","," ","a","n","d"," ","y","o","u","r"," ","c","l","i","m","a","t","e"," ","i","s"," ","c","u","r","r","e","n","t","l","y"," ","o","n">> ELSE r1
      r3 == IF status.status.isCharging
            THEN r2 \o <<"."," ","A","l","s","o"," ","y","o","u","r"," ","c","a","r"," ","i","s"," ","c","h","a","r","g","i","n","g"," ","a","t"," ">>
                    \o numberToString(status.status.chargingPower)
                    \o <<"k","w"," ","a","n","d"," ","w","i","l","l"," ","b","e"," ","f","i","n","i","s","h","e","d"," ","c","h","a","r","g","i","n","g"," ","a","t"," ">>
                    \o <<"{chargeCompleteTime}">>
            ELSE IF status.status.isPluggedIn
            THEN r2 \o <<"."," ","A","l","s","o"," ","y","o","u","r"," ","c","a","r"," ","i","s"," ","c","u","r","r","e","n","t","l","y"," ","p","l","u","g","g","e","d"," ","i","n","t","o"," ","a"," ","c","h","a","r","g","e","r",".">>
            ELSE r2
  IN  r3 \o <<"."," ","T","h","i","s"," ","w","a","s"," ","t","h","e"," ","s","t","a","t","u","s"," ","f","r","o","m"," ">> \o name \o <<" ","o","n"," ">>
         \o <<"{lastSeenShort}">> \o <<".">>

----------------------------------------------------------------------------
(* blRequest's decisions *)

\* a loop test that ignores the acknowledgement
pollAgainUntilLimit(got, c) == c < PollLimit

\* a loop test that allows one more attempt
pollAgainOnceMore(got, c) == ~got /\ c <= PollLimit

\* while (!gotFirstCallback && counter < 10)
pollAgain(got, c) == ~got /\ c < PollLimit

\* a floor that sleeps one more poll interval instead of the remainder
minDurationSleepFixed(d) == IF d < MinDuration THEN PollSleep ELSE 0

\* the sleep that follows the loop: 3000 - duration if duration < 3000, else none (0)
minDurationSleep(d) == IF d < MinDuration THEN MinDuration - d ELSE 0

----------------------------------------------------------------------------
(* State machine *)

NoAck == [at |-> "none", after |-> 0]
NoFailure == [op |-> "", error |-> ""]

\* the module is loaded and processSiriRequest has not been called
SiriInit ==
  /\ commandMap = builtinCommands
  /\ pc = "idle"
  /\ shortcutParameter = <<>>
  /\ config = [customClimates |-> <<>>, debugLogging |-> FALSE]
  /\ found = 0
  /\ handlerCalls = <<>>
  /\ blCalls = <<>>
  /\ type = ""
  /\ message = <<>>
  /\ payload = Undefined
  /\ gotFirstCallback = FALSE
  /\ counter = 0
  /\ start = 0
  /\ duration = 0
  /\ now = 0
  /\ sleeping = 0
  /\ sleeps = <<>>
  /\ late = 0
  /\ logs = <<>>
  /\ callbacks = 0
  /\ firstAck = NoAck
  /\ unawaited = "none"
  /\ failure = NoFailure
  /\ thrown = ""
  /\ returned = <<>>
  /\ response = <<>>

\* no Version object yet
NoVersion ==
  /\ currentVersion = <<>>
  /\ githubLatestRelease = Undefined
  /\ pending = <<>>
  /\ prompt = Undefined
  /\ compared = Undefined
  /\ releaseVersion = Undefined
  /\ released = Undefined

\* no overlapping calls
NoCalls ==
  /\ calls = <<>>
  /\ clock = 0

Init == SiriInit /\ NoVersion /\ NoCalls

\* the lines processSiriRequest and its loops pass to logger.log
requestLog(param) == <<"S","i","r","i"," ","r","e","q","u","e","s","t",":"," ">> \o param
missLog(word, text) ==
  <<"c","o","u","l","d"," ","n","o","t"," ","f","i","n","d"," ">> \o toLocaleLowerCase(word) \o <<" ","i","n"," ">> \o toLocaleLowerCase(text)
responseLog(resp) == <<"S","i","r","i"," ","r","e","s","p","o","n","s","e",":"," ">> \o resp

\* the inner loop again: index of the word at which it breaks, 0 if it does not
RECURSIVE firstMissing(_, _, _)
firstMissing(text, words, k) ==
  IF k > Len(words) THEN 0
  ELSE IF ~includes(toLocaleLowerCase(text), toLocaleLowerCase(words[k])) THEN k
  ELSE firstMissing(text, words, k + 1)

\* the lines logged by the detection loops: one per entry passed over
RECURSIVE missLogs(_, _, _)
missLogs(text, commands, i) ==
  IF i > Len(commands) THEN <<>>
  ELSE LET k == firstMissing(text, commands[i].words, 1)
       IN  IF k = 0 THEN <<>>
           ELSE <<missLog(commands[i].words[k], text)>> \o missLogs(text, commands, i + 1)

\* processSiriRequest up to the call of the detected handler, or to the
\* fallback return: the first log line, the pushes onto the shared list and
\* the detection loops.  fault names the logger.log call that throws, if any.
processSiriRequest(cfgs, faults, maxCustom) ==
  /\ pc = "idle"
  /\ \E param \in Inputs, cfg \in cfgs, t \in StartTimes, fault \in faults :
       LET commands == pushCustomClimates(commandMap, cfg.customClimates)
           i == detectCommand(param, commands, 1)
           misses == IF cfg.debugLogging THEN missLogs(param, commands, 1) ELSE <<>>
       IN  /\ Len(commands) <= Len(builtinCommands) + maxCustom
           /\ shortcutParameter' = param
           /\ config' = cfg
           /\ now' = t
           /\ CASE fault = "request" ->
                     /\ cfg.debugLogging
                     /\ logs' = <<>>
                     /\ thrown' = "logger"
                     /\ pc' = "raised"
                     /\ UNCHANGED <<commandMap, found, response>>
                [] fault = "miss" ->
                     /\ misses # <<>>
                     /\ commandMap' = commands
                     /\ logs' = <<requestLog(param)>>
                     /\ thrown' = "logger"
                     /\ pc' = "raised"
                     /\ UNCHANGED <<found, response>>
                [] OTHER ->
                     /\ commandMap' = commands
                     /\ logs' = IF cfg.debugLogging THEN <<requestLog(param)>> \o misses
                                ELSE <<>>
                     /\ found' = i
                     /\ UNCHANGED thrown
                     /\ IF i = 0
                        THEN /\ response' = unsupported(param)
                             /\ pc' = "returned"
                        ELSE /\ response' = <<>>
                             /\ pc' = "handler"
  /\ UNCHANGED <<release, overlap,
                 handlerCalls, blCalls, type, message, payload, gotFirstCallback,
                 counter, start, duration, sleeping, sleeps, late, callbacks, firstAck,
                 unawaited, failure, returned>>

\* an invocation with a logger that works
ProcessSiriRequest == processSiriRequest(Configs, {"none"}, MaxCustomEntries)

\* the caller has the result (or the rejection): the invocation is over and
\* only the shared commandMap outlives it
Settle ==
  /\ pc \in {"returned", "raised"}
  /\ pc' = "idle"
  /\ shortcutParameter' = <<>>
  /\ config' = [customClimates |-> <<>>, debugLogging |-> FALSE]
  /\ found' = 0
  /\ handlerCalls' = <<>>
  /\ blCalls' = <<>>
  /\ type' = ""
  /\ message' = <<>>
  /\ payload' = Undefined
  /\ gotFirstCallback' = FALSE
  /\ counter' = 0
  /\ start' = 0
  /\ duration' = 0
  /\ now' = 0
  /\ sleeping' = 0
  /\ sleeps' = <<>>
  /\ late' = 0
  /\ logs' = <<>>
  /\ callbacks' = 0
  /\ firstAck' = NoAck
  /\ unawaited' = "none"
  /\ failure' = NoFailure
  /\ thrown' = ""
  /\ returned' = <<>>
  /\ response' = <<>>
  /\ UNCHANGED <<release, overlap, commandMap>>

\* the handler being called is commandDetection.function(bl, commandDetection.data)
calling(fn) == pc = "handler" /\ commandMap[found].function = fn

called == Append(handlerCalls, [function |-> commandMap[found].function,
                                data |-> commandMap[found].data])

getStatusCall(force, cache) == [op |-> "getStatus", args |-> <<force, cache>>]
getCachedStatusCall == [op |-> "getCachedStatus", args |-> <<>>]
processRequestCall(t, p) == [op |-> "processRequest", args |-> <<t, p>>]

\* blRequest from its first line to the start time: the parameters and the
\* locals (lines 171-174), after the handler's bl.getCachedStatus()
blRequest(t, m, p) ==
  /\ type' = t
  /\ message' = m
  /\ payload' = p
  /\ gotFirstCallback' = FALSE
  /\ counter' = 1
  /\ start' = now
  /\ blCalls' = Append(blCalls, getCachedStatusCall)
  /\ callbacks' = 0
  /\ firstAck' = NoAck
  /\ pc' = "submit"
  /\ handlerCalls' = called
  /\ UNCHANGED <<release, overlap, commandMap, shortcutParameter, config, found, duration, now,
                 sleeping, sleeps, logs, late, unawaited, failure, thrown, returned,
                 response>>

\* a blRequest that submits its request a second time
ProcessRequestTwice ==
  /\ pc = "submit"
  /\ blCalls' = blCalls \o <<processRequestCall(type, payload), processRequestCall(type, payload)>>
  /\ \E sync \in BOOLEAN :
       /\ gotFirstCallback' = sync
       /\ callbacks' = IF sync THEN 1 ELSE 0
       /\ firstAck' = IF sync THEN [at |-> "sync", after |-> 0] ELSE NoAck
  /\ unawaited' = "pending"
  /\ pc' = "poll"
  /\ UNCHANGED <<release, overlap, commandMap, shortcutParameter, config, found, handlerCalls,
                 type, message, payload, counter, start, duration, now, sleeping, sleeps,
                 logs, late, failure, thrown, returned, response>>

\* blRequest's call of bl.processRequest (lines 175-177), which nobody
\* awaits and whose callback the client may run before it returns; the loop
\* test follows
ProcessRequest ==
  /\ pc = "submit"
  /\ blCalls' = Append(blCalls, processRequestCall(type, payload))
  /\ \E sync \in BOOLEAN :
       /\ gotFirstCallback' = sync
       /\ callbacks' = IF sync THEN 1 ELSE 0
       /\ firstAck' = IF sync THEN [at |-> "sync", after |-> 0] ELSE NoAck
  /\ unawaited' = "pending"
  /\ pc' = "poll"
  /\ UNCHANGED <<release, overlap, commandMap, shortcutParameter, config, found, handlerCalls,
                 type, message, payload, counter, start, duration, now, sleeping, sleeps,
                 logs, late, failure, thrown, returned, response>>

\* an awaited or synchronous client call fails with error e: nothing on the
\* way up catches it, so the handler and processSiriRequest reject with e
raise(op, e) ==
  /\ failure' = [op |-> op, error |-> e]
  /\ thrown' = e
  /\ pc' = "raised"

\* bl.getCachedStatus() throws: the handler, and processSiriRequest, reject
getCachedStatusThrows ==
  /\ blCalls' = Append(blCalls, getCachedStatusCall)
  /\ handlerCalls' = called
  /\ \E e \in Errors : raise("getCachedStatus", e)
  /\ UNCHANGED <<release, overlap, commandMap, shortcutParameter, config, found, type, message, payload,
                 gotFirstCallback, counter, start, duration, now, sleeping, sleeps,
                 logs, late, callbacks, firstAck, unawaited, returned, response>>

Warm ==
  /\ calling("warm")
  /\ \/ \E status \in Statuses : blRequest("climate", warmMessage(status), Some(warmPayload))
     \/ getCachedStatusThrows

Cool ==
  /\ calling("cool")
  /\ \/ \E status \in Statuses : blRequest("climate", coolMessage(status), Some(coolPayload))
     \/ getCachedStatusThrows

ClimateOff ==
  /\ calling("climateOff")
  /\ \/ \E status \in Statuses :
          blRequest("climate", climateOffMessage(status), Some(climateOffPayload))
     \/ getCachedStatusThrows

CustomClimate ==
  /\ calling("customClimate")
  /\ LET data == commandMap[found].data[1]
     IN  \/ \E status \in Statuses :
              blRequest("climate", customClimateMessage(status, data),
                        Some(customClimatePayload(data)))
         \/ getCachedStatusThrows

Lock ==
  /\ calling("lock")
  /\ \/ \E status \in Statuses : blRequest("lock", lockMessage(status), Undefined)
     \/ getCachedStatusThrows

Unlock ==
  /\ calling("unlock")
  /\ \/ \E status \in Statuses : blRequest("unlock", unlockMessage(status), Undefined)
     \/ getCachedStatusThrows

StartCharge ==
  /\ calling("startCharge")
  /\ \/ \E status \in Statuses :
          blRequest("startCharge", startChargeMessage(status), Undefined)
     \/ getCachedStatusThrows

StopCharge ==
  /\ calling("stopCharge")
  /\ \/ \E status \in Statuses :
          blRequest("stopCharge", stopChargeMessage(status), Undefined)
     \/ getCachedStatusThrows

\* getStatus up to its await of bl.getStatus(false, true)
GetStatus ==
  /\ calling("getStatus")
  /\ blCalls' = Append(blCalls, getStatusCall(FALSE, TRUE))
  /\ handlerCalls' = called
  /\ pc' = "statusAwait"
  /\ UNCHANGED <<release, overlap, commandMap, shortcutParameter, config, found, type, message, payload,
                 gotFirstCallback, counter, start, duration, now, sleeping, sleeps,
                 logs, late, callbacks, firstAck, unawaited, failure, thrown,
                 returned, response>>

\* bl.getStatus settles: getStatus returns its sentence, or rejects
GetStatusSettles ==
  /\ pc = "statusAwait"
  /\ \/ \E status \in Statuses :
          /\ returned' = statusMessage(status)
          /\ pc' = "respond"
          /\ UNCHANGED <<failure, thrown>>
     \/ /\ \E e \in Errors : raise("getStatus", e)
        /\ UNCHANGED returned
  /\ UNCHANGED <<release, overlap, commandMap, shortcutParameter, config, found, handlerCalls, blCalls,
                 type, message, payload, gotFirstCallback, counter, start, duration,
                 now, sleeping, sleeps, logs, late, callbacks, firstAck, unawaited, response>>

\* a getRemoteStatus that awaits the refresh and reports what it brought
GetRemoteStatusAwaited ==
  /\ calling("getRemoteStatus")
  /\ blCalls' = Append(blCalls, getStatusCall(TRUE, TRUE))
  /\ handlerCalls' = called
  /\ pc' = "statusAwait"
  /\ UNCHANGED <<release, overlap, commandMap, shortcutParameter, config, found, type, message, payload,
                 gotFirstCallback, counter, start, duration, now, sleeping, sleeps, late,
                 logs, callbacks, firstAck, unawaited, failure, thrown, returned, response>>

\* getRemoteStatus up to its await of sleep(3000): the refresh is not awaited
GetRemoteStatus ==
  /\ calling("getRemoteStatus")
  /\ blCalls' = Append(blCalls, getStatusCall(TRUE, TRUE))
  /\ handlerCalls' = called
  /\ unawaited' = "pending"
  /\ sleeping' = RemoteStatusSleep
  /\ pc' = "remoteSleep"
  /\ UNCHANGED <<release, overlap, commandMap, shortcutParameter, config, found, type, message, payload,
                 gotFirstCallback, counter, start, duration, now, sleeps,
                 logs, late, callbacks, firstAck, failure, thrown, returned, response>>

\* a sleep(ms) completes: at least ms later
wake ==
  /\ \E j \in Jitters :
       /\ j > 0 => late < MaxLateSleeps
       /\ now' = now + sleeping + j
       /\ late' = IF j > 0 THEN late + 1 ELSE late
  /\ sleeps' = Append(sleeps, [ms |-> sleeping, at |-> pc])
  /\ sleeping' = 0

RemoteStatusWake ==
  /\ pc = "remoteSleep"
  /\ wake
  /\ returned' = remoteStatusMessage
  /\ pc' = "respond"
  /\ UNCHANGED <<release, overlap, commandMap, shortcutParameter, config, found, handlerCalls, blCalls,
                 type, message, payload, gotFirstCallback, counter, start, duration,
                 logs, callbacks, firstAck, unawaited, failure, thrown,
                 response>>

\* a return that reports nothing when no acknowledgement was seen
returnMessageIfAcknowledged ==
  /\ returned' = IF gotFirstCallback THEN message ELSE <<>>
  /\ pc' = "respond"

\* blRequest's last line: return message
returnMessage ==
  /\ returned' = message
  /\ pc' = "respond"

\* blRequest's loop test, and what follows the loop up to the next await or
\* the return
Poll ==
  /\ pc = "poll"
  /\ IF pollAgain(gotFirstCallback, counter)
     THEN /\ sleeping' = PollSleep
          /\ pc' = "pollSleep"
          /\ UNCHANGED <<duration, returned>>
     ELSE /\ duration' = now - start
          /\ IF minDurationSleep(duration') > 0
             THEN /\ sleeping' = minDurationSleep(duration')
                  /\ pc' = "minSleep"
                  /\ UNCHANGED returned
             ELSE /\ returnMessage
                  /\ UNCHANGED sleeping
  /\ UNCHANGED <<release, overlap, commandMap, shortcutParameter, config, found, handlerCalls, blCalls,
                 type, message, payload, gotFirstCallback, counter, start, now, sleeps,
                 logs, late, callbacks, firstAck, unawaited, failure, thrown,
                 response>>

\* a loop that waits for the callback itself instead of a timer
PollWakeOnCallback ==
  /\ pc = "pollSleep"
  /\ gotFirstCallback
  /\ wake
  /\ counter' = counter + 1
  /\ pc' = "poll"
  /\ UNCHANGED <<release, overlap, commandMap, shortcutParameter, config, found, handlerCalls, blCalls,
                 type, message, payload, gotFirstCallback, start, duration,
                 logs, callbacks, firstAck, unawaited, failure, thrown,
                 returned, response>>

\* the loop's sleep(500) completes; counter += 1
PollWake ==
  /\ pc = "pollSleep"
  /\ wake
  /\ counter' = counter + 1
  /\ pc' = "poll"
  /\ UNCHANGED <<release, overlap, commandMap, shortcutParameter, config, found, handlerCalls, blCalls,
                 type, message, payload, gotFirstCallback, start, duration,
                 logs, callbacks, firstAck, unawaited, failure, thrown,
                 returned, response>>

\* sleep(3000 - duration) completes; return message
MinDurationWake ==
  /\ pc = "minSleep"
  /\ wake
  /\ returnMessage
  /\ UNCHANGED <<release, overlap, commandMap, shortcutParameter, config, found, handlerCalls, blCalls,
                 type, message, payload, gotFirstCallback, counter, start, duration,
                 logs, callbacks, firstAck, unawaited, failure, thrown,
                 response>>

\* a callback that flips the flag each time it runs
CallbackToggles ==
  /\ pc \in {"pollSleep", "minSleep", "respond", "returned", "raised"}
  /\ type # ""
  /\ callbacks < MaxCallbacks
  /\ gotFirstCallback' = ~gotFirstCallback
  /\ callbacks' = callbacks + 1
  /\ firstAck' = IF callbacks = 0 THEN [at |-> pc, after |-> Len(sleeps)] ELSE firstAck
  /\ UNCHANGED <<release, overlap, commandMap, pc, shortcutParameter, config, found, handlerCalls, blCalls,
                 type, message, payload, counter, start, duration, now, sleeping, sleeps,
                 logs, late, unawaited, failure, thrown, returned, response>>

\* the vehicle client runs the callback given to processRequest, at any
\* moment after that call at which no code of the invocation is running:
\* while blRequest is suspended in a sleep, after it has returned to the
\* handler, and after processSiriRequest has returned or rejected
Callback ==
  /\ pc \in {"pollSleep", "minSleep", "respond", "returned", "raised"}
  /\ type # ""
  /\ callbacks < MaxCallbacks
  /\ gotFirstCallback' = TRUE
  /\ callbacks' = callbacks + 1
  /\ firstAck' = IF callbacks = 0 THEN [at |-> pc, after |-> Len(sleeps)] ELSE firstAck
  /\ UNCHANGED <<release, overlap, commandMap, pc, shortcutParameter, config, found, handlerCalls, blCalls,
                 type, message, payload, counter, start, duration, now, sleeping, sleeps,
                 logs, late, unawaited, failure, thrown, returned, response>>

\* the promise of the call nobody awaits (bl.processRequest in blRequest,
\* bl.getStatus(true, true) in getRemoteStatus) settles at any moment at
\* which no code of the invocation is running; no code is attached to it
UnawaitedSettles ==
  /\ pc \in {"pollSleep", "minSleep", "remoteSleep", "respond", "returned", "raised"}
  /\ unawaited = "pending"
  /\ unawaited' \in {"fulfilled", "rejected"}
  /\ UNCHANGED <<release, overlap, commandMap, pc, shortcutParameter, config, found, handlerCalls, blCalls,
                 type, message, payload, gotFirstCallback, counter, start, duration,
                 now, sleeping, sleeps, logs, late, callbacks, firstAck, failure, thrown,
                 returned, response>>

\* const response = await commandDetection.function(...); the response is
\* logged when debugLogging is set; return response
Respond ==
  /\ pc = "respond"
  /\ logs' = IF config.debugLogging THEN Append(logs, responseLog(returned)) ELSE logs
  /\ response' = returned
  /\ pc' = "returned"
  /\ UNCHANGED <<release, overlap, commandMap, shortcutParameter, config, found, handlerCalls, blCalls,
                 type, message, payload, gotFirstCallback, counter, start, duration,
                 now, sleeping, sleeps, late, callbacks, firstAck, unawaited, failure,
                 thrown, returned>>

\* the response is ready and logger.log throws on it
RespondLogFails ==
  /\ pc = "respond"
  /\ config.debugLogging
  /\ thrown' = "logger"
  /\ pc' = "raised"
  /\ UNCHANGED <<release, overlap, commandMap, shortcutParameter, config, found, handlerCalls, blCalls,
                 type, message, payload, gotFirstCallback, counter, start, duration,
                 now, sleeping, sleeps, logs, late, callbacks, firstAck, unawaited,
                 failure, returned, response>>

Next ==
  \/ ProcessSiriRequest
  \/ GetRemoteStatus
  \/ RemoteStatusWake
  \/ GetStatus
  \/ GetStatusSettles
  \/ Warm
  \/ Cool
  \/ ClimateOff
  \/ CustomClimate
  \/ Lock
  \/ Unlock
  \/ StartCharge
  \/ StopCharge
  \/ ProcessRequest
  \/ Poll
  \/ PollWake
  \/ MinDurationWake
  \/ Callback
  \/ UnawaitedSettles
  \/ Respond
  \/ Settle

Spec == Init /\ [][Next]_vars

\* what the handlers, the sleeps and the vehicle client do
Handling ==
  \/ GetRemoteStatus
  \/ RemoteStatusWake
  \/ GetStatus
  \/ GetStatusSettles
  \/ Warm
  \/ Cool
  \/ ClimateOff
  \/ CustomClimate
  \/ Lock
  \/ Unlock
  \/ StartCharge
  \/ StopCharge
  \/ ProcessRequest
  \/ Poll
  \/ PollWake
  \/ MinDurationWake
  \/ Callback
  \/ UnawaitedSettles

\* invocations while the shared list is short
FewProcessSiriRequest == processSiriRequest(Configs, {"none"}, MaxFewCustomEntries)

FewNext ==
  \/ FewProcessSiriRequest
  \/ Handling
  \/ Respond
  \/ Settle

\* every step the program takes by itself is taken; the vehicle client owes
\* no callback, and no further request need arrive
FairSpec ==
  /\ Init /\ [][FewNext]_vars
  /\ WF_vars(ProcessRequest)
  /\ WF_vars(Poll)
  /\ WF_vars(PollWake)
  /\ WF_vars(MinDurationWake)
  /\ WF_vars(Respond)

\* invocations with debugLogging on or off and a logger whose log may throw
LogProcessSiriRequest ==
  processSiriRequest(LogConfigs, {"none", "request", "miss"}, MaxFewCustomEntries)

LogNext ==
  \/ LogProcessSiriRequest
  \/ Handling
  \/ Respond
  \/ RespondLogFails
  \/ Settle

LogSpec == Init /\ [][LogNext]_vars

----------------------------------------------------------------------------
(* Version (lib/bluelink.ts) *)

\* version numbers of releases: major, minor and patch, of one and of two
\* digits
VersionNumbers ==
  { [major |-> 1, minor |-> 0, patch |-> 0],
    [major |-> 1, minor |-> 9, patch |-> 0],
    [major |-> 1, minor |-> 10, patch |-> 0],
    [major |-> 2, minor |-> 0, patch |-> 0],
    [major |-> 2, minor |-> 0, patch |-> 5],
    [major |-> 2, minor |-> 0, patch |-> 10] }

\* the tag of a release: vMAJOR.MINOR.PATCH
versionString(n) ==
  <<"v">> \o numberToString(n.major) \o <<".">> \o numberToString(n.minor)
          \o <<".">> \o numberToString(n.patch)

Versions == { versionString(n) : n \in VersionNumbers }


\* s.replace(c, ''): the first occurrence of c is removed
RECURSIVE removeFirst(_, _)
removeFirst(s, c) ==
  IF s = <<>> THEN <<>>
  ELSE IF Head(s) = c THEN Tail(s)
  ELSE <<Head(s)>> \o removeFirst(Tail(s), c)

\* s.replace(/c/g, ''): every occurrence of c is removed
removeAll(s, c) == SelectSeq(s, LAMBDA x : x # c)

\* Number(s) of a string of decimal digits, 0 for the empty string;
\* Undefined stands for NaN
RECURSIVE digitsToNumber(_)
digitsToNumber(s) ==
  IF s = <<>> THEN 0
  ELSE 10 * digitsToNumber(SubSeq(s, 1, Len(s) - 1)) + (indexOf(Digits, s[Len(s)]) - 1)

Number(s) ==
  IF \A k \in 1..Len(s) : indexOf(Digits, s[k]) # 0 THEN Some(digitsToNumber(s))
  ELSE Undefined

\* Version.versionToNumber
versionToNumber(version) == Number(removeAll(removeFirst(version, "v"), "."))

\* the comparison of promptForUpdate; a comparison with NaN is false
updateDue(latest, current) ==
  /\ versionToNumber(latest) # Undefined
  /\ versionToNumber(current) # Undefined
  /\ versionToNumber(latest)[1] - versionToNumber(current)[1] >= 10

\* new Version(...): the current version is read from version.json
VersionInit ==
  /\ SiriInit
  /\ NoCalls
  /\ currentVersion \in Versions
  /\ githubLatestRelease = Undefined
  /\ pending = <<>>
  /\ prompt = Undefined
  /\ compared = Undefined
  /\ releaseVersion = Undefined
  /\ released = Undefined

\* a call suspended at await request.loadJSON(): it holds no release yet
awaitsLoadJSON(caller) ==
  [caller |-> caller, pc |-> "loadJSON", latestRelease |-> Undefined]

\* a call whose getLatestGithubRelease has returned latestRelease and whose
\* caller has not resumed from its await yet
awaitsRelease(caller, latestRelease) ==
  [caller |-> caller, pc |-> "resume", latestRelease |-> Some(latestRelease)]

\* a call of getLatestGithubRelease by caller, up to the first await: the
\* cached release is returned to the awaiting caller, or request.loadJSON()
\* is awaited.  Nothing is written.
getLatestGithubRelease(caller) ==
  /\ Len(pending) < MaxPending
  /\ pending' = Append(pending,
                       IF githubLatestRelease # Undefined
                       THEN awaitsRelease(caller, githubLatestRelease[1])
                       ELSE awaitsLoadJSON(caller))
  /\ UNCHANGED <<currentVersion, githubLatestRelease, prompt, compared, releaseVersion,
                 released>>

\* promptForUpdate is called
PromptForUpdate ==
  /\ getLatestGithubRelease("promptForUpdate")
  /\ UNCHANGED <<siri, overlap>>

\* getReleaseVersion is called
GetReleaseVersion ==
  /\ getLatestGithubRelease("getReleaseVersion")
  /\ UNCHANGED <<siri, overlap>>

\* getRelease is called
GetRelease ==
  /\ getLatestGithubRelease("getRelease")
  /\ UNCHANGED <<siri, overlap>>

\* pending without its i-th element
without(i) == SubSeq(pending, 1, i - 1) \o SubSeq(pending, i + 1, Len(pending))

\* a pending request.loadJSON() answers: getLatestGithubRelease writes the
\* release over the cache, whatever it holds by now, and returns it; the
\* caller resumes in a later step
GetLatestGithubRelease ==
  /\ \E i \in 1..Len(pending), tag \in Versions :
       /\ pending[i].pc = "loadJSON"
       /\ githubLatestRelease' = Some([version |-> tag])
       /\ pending' = [pending EXCEPT
                        ![i] = awaitsRelease(pending[i].caller, [version |-> tag])]
  /\ UNCHANGED <<currentVersion, prompt, compared, releaseVersion, released>>
  /\ UNCHANGED <<siri, overlap>>

\* a pending request.loadJSON() rejects, or its answer has no assets to
\* iterate: the call rejects and nothing is written
LoadJSONFails ==
  /\ \E i \in 1..Len(pending) :
       /\ pending[i].pc = "loadJSON"
       /\ pending' = without(i)
  /\ UNCHANGED <<currentVersion, githubLatestRelease, prompt, compared, releaseVersion,
                 released>>
  /\ UNCHANGED <<siri, overlap>>

\* what a caller of getLatestGithubRelease does with the release it was
\* given: promptForUpdate compares its version, getReleaseVersion returns
\* its version, getRelease returns it
resume(caller, latestRelease) ==
  CASE caller = "promptForUpdate" ->
         /\ prompt' = Some(updateDue(latestRelease.version, currentVersion))
         /\ compared' = Some(latestRelease.version)
         /\ UNCHANGED <<releaseVersion, released>>
    [] caller = "getReleaseVersion" ->
         /\ releaseVersion' = Some(latestRelease.version)
         /\ UNCHANGED <<prompt, compared, released>>
    [] OTHER ->
         /\ released' = Some(latestRelease)
         /\ UNCHANGED <<prompt, compared, releaseVersion>>

\* a caller resumes from its await of getLatestGithubRelease, with the
\* release that call returned; the cache may hold another one by now
Resume ==
  /\ \E i \in 1..Len(pending) :
       /\ pending[i].pc = "resume"
       /\ resume(pending[i].caller, pending[i].latestRelease[1])
       /\ pending' = without(i)
  /\ UNCHANGED <<currentVersion, githubLatestRelease>>
  /\ UNCHANGED <<siri, overlap>>

VersionNext ==
  \/ PromptForUpdate
  \/ GetReleaseVersion
  \/ GetRelease
  \/ GetLatestGithubRelease
  \/ LoadJSONFails
  \/ Resume

VersionSpec == VersionInit /\ [][VersionNext]_vars

----------------------------------------------------------------------------
(* blRequest calls that overlap: a second command is issued before the     *)
(* first has returned.  Each call of blRequest has its own locals, closed  *)
(* over by the callback it hands to processRequest.                        *)

Calls == {1, 2}

\* what the handlers of the two commands pass to blRequest: the first locks
\* the car, the second unlocks it
overlapCommand(c) ==
  LET s == CHOOSE x \in Statuses : x.car.nickName # <<>>
  IN  IF c = 1 THEN [type |-> "lock", message |-> lockMessage(s)]
      ELSE [type |-> "unlock", message |-> unlockMessage(s)]

NotCalled ==
  [pc |-> "idle", type |-> "", message |-> <<>>, gotFirstCallback |-> FALSE,
   counter |-> 0, start |-> 0, duration |-> 0, wakeAt |-> 0, acked |-> FALSE,
   returned |-> <<>>, doneAt |-> 0]

OverlapInit ==
  /\ SiriInit
  /\ NoVersion
  /\ calls = [c \in Calls |-> NotCalled]
  /\ clock = 0

asleep(c) == calls[c].pc \in {"pollSleep", "minSleep"}

\* the sleep of call c is the next timer to expire
nextTimer(c) ==
  /\ asleep(c)
  /\ \A d \in Calls : asleep(d) => calls[c].wakeAt <= calls[d].wakeAt

\* time may pass by j before a call that finds another in progress, but not
\* beyond a pending timer; the clock is read from the first call on
passes(j) ==
  /\ j > 0 => \E d \in Calls : calls[d].pc # "idle"
  /\ \A d \in Calls : asleep(d) => clock + j <= calls[d].wakeAt

\* a callback that sets the flag of every call in progress
CallbackCallShared(c) ==
  /\ calls[c].pc \in {"pollSleep", "minSleep", "done"}
  /\ calls' = [d \in Calls |->
                 IF d = c
                 THEN [calls[d] EXCEPT !.gotFirstCallback = TRUE, !.acked = TRUE]
                 ELSE IF calls[d].pc # "idle"
                      THEN [calls[d] EXCEPT !.gotFirstCallback = TRUE]
                      ELSE calls[d]]
  /\ UNCHANGED clock
  /\ UNCHANGED <<siri, release>>

\* call c of blRequest from its first line to the loop test
StartCall(c) ==
  /\ calls[c].pc = "idle"
  /\ \A d \in Calls : d < c => calls[d].pc # "idle"
  /\ \E j \in Jitters, sync \in BOOLEAN :
       /\ passes(j)
       /\ clock' = clock + j
       /\ calls' = [calls EXCEPT ![c] =
                      [NotCalled EXCEPT !.pc = "poll", !.type = overlapCommand(c).type,
                                        !.message = overlapCommand(c).message, !.counter = 1,
                                        !.start = clock', !.gotFirstCallback = sync,
                                        !.acked = sync]]
  /\ UNCHANGED <<siri, release>>

\* the loop test of call c, and what follows the loop up to the next await
\* or the return
PollCall(c) ==
  /\ calls[c].pc = "poll"
  /\ LET f == calls[c]
         d == clock - f.start
     IN  calls' = [calls EXCEPT ![c] =
           IF pollAgain(f.gotFirstCallback, f.counter)
           THEN [f EXCEPT !.pc = "pollSleep", !.wakeAt = clock + PollSleep]
           ELSE IF minDurationSleep(d) > 0
                THEN [f EXCEPT !.duration = d, !.pc = "minSleep",
                               !.wakeAt = clock + minDurationSleep(d)]
                ELSE [f EXCEPT !.duration = d, !.pc = "done", !.returned = f.message,
                               !.doneAt = clock]]
  /\ UNCHANGED clock
  /\ UNCHANGED <<siri, release>>

\* the sleep of call c completes
WakeCall(c) ==
  /\ nextTimer(c)
  /\ clock' = IF calls[c].wakeAt > clock THEN calls[c].wakeAt ELSE clock
  /\ LET f == calls[c]
     IN  calls' = [calls EXCEPT ![c] =
           IF f.pc = "pollSleep"
           THEN [f EXCEPT !.pc = "poll", !.counter = f.counter + 1]
           ELSE [f EXCEPT !.pc = "done", !.returned = f.message, !.doneAt = clock']]
  /\ UNCHANGED <<siri, release>>

\* the vehicle client runs the callback that call c gave to processRequest,
\* for the first time or again
CallbackCall(c) ==
  /\ calls[c].pc \in {"pollSleep", "minSleep", "done"}
  /\ calls' = [calls EXCEPT ![c] = [@ EXCEPT !.gotFirstCallback = TRUE, !.acked = TRUE]]
  /\ UNCHANGED clock
  /\ UNCHANGED <<siri, release>>

OverlapNext ==
  \E c \in Calls :
    \/ StartCall(c)
    \/ PollCall(c)
    \/ WakeCall(c)
    \/ CallbackCall(c)

OverlapSpec == OverlapInit /\ [][OverlapNext]_vars

----------------------------------------------------------------------------
(* Vocabulary of the properties *)

\* blRequest has been called by this invocation
inBlRequest == type # ""
\* blRequest has returned
blRequestReturned == inBlRequest /\ pc \in {"respond", "returned"}
\* blRequest has left its polling loop
afterPollLoop == inBlRequest /\ pc \in {"minSleep", "respond", "returned"}

pollSleeps == SelectSeq(sleeps, LAMBDA s : s.at = "pollSleep")
minSleeps == SelectSeq(sleeps, LAMBDA s : s.at = "minSleep")

\* the callback ran before the loop was left
acknowledgedInLoop == firstAck.at \in {"sync", "pollSleep"}

processRequests == SelectSeq(blCalls, LAMBDA c : c.op = "processRequest")

----------------------------------------------------------------------------
(* C1: whenever blRequest has returned, what it returned is the message it  *)
(* was called with, whether the callback ran inside processRequest, during  *)
(* a sleep, after the return, or not at all.                                *)
C1_ReturnsMessage ==
  blRequestReturned =>
    /\ returned = message
    /\ message # <<>>
    /\ pc = "returned" => response = message

\* blRequest gave up polling without an acknowledgement, returned, and the
\* callback ran only afterwards
C1_Witness ==
  /\ blRequestReturned
  /\ pc = "returned"
  /\ firstAck.at = "returned"
  /\ returned = message

(* C2: when blRequest has returned, at least 3000 time-units have passed    *)
(* since start; and the sleep after the loop is entered only with duration  *)
(* below 3000 and then asks for exactly 3000 - duration.                    *)
C2_MinimumDuration ==
  /\ blRequestReturned => now - start >= MinDuration
  /\ (inBlRequest /\ pc = "minSleep") =>
       /\ duration = now - start
       /\ duration < MinDuration
       /\ sleeping = MinDuration - duration

\* acknowledged inside processRequest: no polling sleep, one sleep of 3000
C2_Witness ==
  /\ blRequestReturned
  /\ firstAck.at = "sync"
  /\ Len(sleeps) = 1
  /\ sleeps[1].ms = MinDuration
  /\ now - start >= MinDuration

----------------------------------------------------------------------------
(* Matching, stated without the loops *)

\* word occurs in text, letter case aside
occursIn(word, text) ==
  \E off \in 0..(Len(text) - Len(word)) :
    \A k \in 1..Len(word) : LowerChar(text[off + k]) = LowerChar(word[k])

\* every trigger word of the entry occurs in the text
matches(text, entry) ==
  \A k \in 1..Len(entry.words) : occursIn(entry.words[k], text)

\* positions of the list whose entry matches the text
matchingIn(text, commands) ==
  { i \in 1..Len(commands) : matches(text, commands[i]) }

\* the earliest of a non-empty set of positions
earliest(M) == CHOOSE i \in M : \A j \in M : i <= j

handlerCallOf(entry) == [function |-> entry.function, data |-> entry.data]

\* an invocation is in progress or has just ended
invoked == pc # "idle"

\* the step in which processSiriRequest extends and scans the list
Detects == pc = "idle" /\ pc' # "idle"
\* a step inside one invocation
Within == pc # "idle" /\ pc' # "idle"
\* the step that calls the detected handler
CallsHandler == pc = "handler" /\ pc' # "handler"

(* C3 as stated: for any input text, when processSiriRequest has returned   *)
(* exactly one handler was invoked, that of the earliest matching entry,    *)
(* with that entry's data, and its result was returned.                     *)
C3_Original ==
  pc = "returned" =>
    LET M == matchingIn(shortcutParameter, commandMap)
    IN  /\ M # {}
        /\ handlerCalls = <<handlerCallOf(commandMap[earliest(M)])>>
        /\ response = returned

(* C3 as amended: for any input text that matches at least one entry of     *)
(* the iterated list, the entry detected is the earliest matching one; its  *)
(* handler is called once, with that entry's data, and no other handler is  *)
(* called in the invocation; and when processSiriRequest returns after a    *)
(* handler, it returns what the handler returned.  For a text that matches  *)
(* no entry nothing is detected and no handler is called.                   *)
C3_Step ==
  /\ Detects =>
       LET M == matchingIn(shortcutParameter', commandMap')
       IN  /\ found' = IF M = {} THEN 0 ELSE earliest(M)
           /\ handlerCalls' = <<>>
  /\ Within => UNCHANGED <<commandMap, shortcutParameter, found>>
  /\ CallsHandler => handlerCalls' = <<handlerCallOf(commandMap[found])>>
  /\ (Within /\ ~CallsHandler) => handlerCalls' = handlerCalls
  /\ (Within /\ found = 0) => handlerCalls' = <<>>
  /\ (Within /\ pc' = "returned") => (response' = returned /\ returned # <<>>)

C3_EarliestMatchOnly == [][C3_Step]_vars

\* returned after invoking one handler although a later entry matched too
C3_Witness ==
  /\ pc = "returned"
  /\ Len(handlerCalls) = 1
  /\ response = returned
  /\ LET M == matchingIn(shortcutParameter, commandMap)
     IN  \E j \in M : j > found /\ found = earliest(M)

(* C4: for every input text in which "unlock" occurs and which matches no   *)
(* entry placed before the unlock entry, the entry detected is the unlock   *)
(* entry; from then on every handler called is unlock, every processRequest *)
(* has type 'unlock', and blRequest returns after exactly one of them: the  *)
(* lock handler is never invoked.  The list keeps every lock entry behind   *)
(* the unlock entry.                                                        *)
unlockIndex(commands) ==
  CHOOSE i \in 1..Len(commands) : commands[i].function = "unlock"

C4_Step ==
  /\ ( /\ Detects
       /\ occursIn(<<"u","n","l","o","c","k">>, shortcutParameter')
       /\ \A j \in 1..(unlockIndex(commandMap') - 1) :
            ~matches(shortcutParameter', commandMap'[j]) )
     => found' = unlockIndex(commandMap')
  /\ \A i \in 1..Len(commandMap') :
       commandMap'[i].function = "lock" => unlockIndex(commandMap') < i
  /\ Within => UNCHANGED <<commandMap, shortcutParameter, found>>
  /\ (Within /\ found = unlockIndex(commandMap)) =>
       /\ \A k \in 1..Len(handlerCalls') : handlerCalls'[k].function = "unlock"
       /\ \A k \in 1..Len(blCalls') :
            blCalls'[k].op = "processRequest" => blCalls'[k].args[1] = "unlock"
       /\ pc' = "respond" =>
            Len(SelectSeq(blCalls', LAMBDA c : c.op = "processRequest")) = 1

C4_UnlockBeforeLock == [][C4_Step]_vars

\* "lock and unlock" was dispatched, and the request issued is an unlock
C4_Witness ==
  /\ pc = "returned"
  /\ shortcutParameter = <<"l","o","c","k"," ","a","n","d"," ","u","n","l","o","c","k">>
  /\ handlerCalls = <<handlerCallOf(unlockEntry)>>
  /\ Len(processRequests) = 1
  /\ processRequests[1].args[1] = "unlock"

(* C5: for every input text in which both "status" and "remote" occur, in   *)
(* either order and any letter case, the remote-status entry is the one     *)
(* detected, no handler but getRemoteStatus is invoked, and what is         *)
(* returned is getRemoteStatus's string.                                    *)
C5_RemoteStatusBeforeStatus ==
  ( /\ invoked
    /\ occursIn(<<"s","t","a","t","u","s">>, shortcutParameter)
    /\ occursIn(<<"r","e","m","o","t","e">>, shortcutParameter) )
  =>
    /\ found # 0
    /\ commandMap[found].function = "getRemoteStatus"
    /\ \A k \in 1..Len(handlerCalls) : handlerCalls[k].function = "getRemoteStatus"
    /\ pc = "returned" => response = remoteStatusMessage

\* "Status of the REMOTE": status first, mixed case, answered by getRemoteStatus
C5_Witness ==
  /\ pc = "returned"
  /\ shortcutParameter = <<"S","t","a","t","u","s"," ","o","f"," ","t","h","e"," ","R","E","M","O","T","E">>
  /\ handlerCalls = <<handlerCallOf(getRemoteStatusEntry)>>
  /\ response = remoteStatusMessage

(* C6: for an input text that matches no entry of the iterated list,        *)
(* processSiriRequest returns at once (it does not reject); the returned    *)
(* string contains the input text as given and says the command is not      *)
(* supported; no handler has been invoked and no vehicle-client call made,  *)
(* and nothing more happens in that invocation.                             *)
C6_Step ==
  /\ (Detects /\ matchingIn(shortcutParameter', commandMap') = {}) =>
       /\ pc' = "returned"
       /\ found' = 0
       /\ includes(response', shortcutParameter')
       /\ includes(response', <<"i"," ","d","o","n","t"," ","s","u","p","p","o","r","t"," ","t","h","a","t"," ","c","o","m","m","a","n","d">>)
       /\ handlerCalls' = <<>>
       /\ blCalls' = <<>>
  /\ (pc = "returned" /\ found = 0) => pc' = "idle"

C6_UnsupportedFallback == [][C6_Step]_vars

\* "Hello" (with its capital) came back in the fallback
C6_Witness ==
  /\ pc = "returned"
  /\ found = 0
  /\ shortcutParameter = <<"H","e","l","l","o">>
  /\ includes(response, <<"H","e","l","l","o">>)
  /\ handlerCalls = <<>>
  /\ blCalls = <<>>

(* C7: in every invocation the iterated list is exactly the built-in        *)
(* entries followed by one entry per custom climate of that invocation's    *)
(* config, whatever invocations came before.                                *)
C7_CatalogIsFresh ==
  invoked =>
    commandMap = builtinCommands \o
      [k \in 1..Len(config.customClimates) |-> customEntry(config.customClimates[k])]

(* C8: when the config of the invocation has a custom climate P, and every  *)
(* token of P's name and "climate" occur in the input, and the input        *)
(* matches no built-in entry, then once processSiriRequest has returned     *)
(* exactly one processRequest was made, of type 'climate', with payload P   *)
(* with enable set to true.                                                 *)
tokensOccur(P, text) ==
  /\ \A k \in 1..Len(split(P.name)) : occursIn(split(P.name)[k], text)
  /\ occursIn(<<"c","l","i","m","a","t","e">>, text)

C8_CustomClimatePayload ==
  \A n \in 1..Len(config.customClimates) :
    LET P == config.customClimates[n]
    IN  ( /\ pc = "returned"
          /\ tokensOccur(P, shortcutParameter)
          /\ \A b \in 1..Len(builtinCommands) :
               ~matches(shortcutParameter, builtinCommands[b]) )
        =>
          /\ Len(processRequests) = 1
          /\ processRequests[1].args[1] = "climate"
          /\ processRequests[1].args[2] =
               Some([k \in DOMAIN P \cup {"enable"} |->
                       IF k = "enable" THEN TRUE ELSE P[k]])

(* C9 as stated: every polling sleep asks for 500 time-units; the loop is   *)
(* left only once the callback has run or 10 polling sleeps have been made, *)
(* and without a callback it makes 10 of them, 5000 time-units in all.      *)
C9_Original ==
  /\ \A k \in 1..Len(pollSleeps) : pollSleeps[k].ms = PollSleep
  /\ afterPollLoop =>
       \/ acknowledgedInLoop
       \/ /\ Len(pollSleeps) = PollLimit
          /\ Len(pollSleeps) * PollSleep = 5000

(* C9 as amended: every polling sleep asks for 500 time-units; no polling   *)
(* sleep begins once the callback has run; the loop is left only once the   *)
(* callback has run or 9 polling sleeps have been made (counter starts at 1 *)
(* and the loop runs while it is below 10), and without a callback it makes *)
(* 9 of them, 4500 time-units in all.                                       *)
C9_PollLoop ==
  /\ \A k \in 1..Len(pollSleeps) : pollSleeps[k].ms = PollSleep
  /\ (inBlRequest /\ pc = "pollSleep") =>
       /\ sleeping = PollSleep
       /\ gotFirstCallback => (firstAck.at = "pollSleep" /\ firstAck.after = Len(sleeps))
  /\ inBlRequest => Len(pollSleeps) <= 9
  /\ afterPollLoop =>
       \/ acknowledgedInLoop
       \/ /\ Len(pollSleeps) = 9
          /\ Len(pollSleeps) * PollSleep = 4500
          /\ duration >= 4500

\* the callback never ran: blRequest returned after 9 polling sleeps
C9_Witness ==
  /\ blRequestReturned
  /\ pc = "returned"
  /\ callbacks = 0
  /\ Len(pollSleeps) = 9
  /\ Len(minSleeps) = 0

(* C10: every blRequest call returns: from the moment blRequest is entered  *)
(* it eventually returns the confirmation message, also when the callback   *)
(* never runs, and whenever it runs; and the minimum-duration sleep has     *)
(* then run at most once.  (Each sleep completes: FairSpec.)                *)
C10_BlRequestReturns ==
  (inBlRequest /\ pc \in {"submit", "poll"}) ~>
    (blRequestReturned /\ returned = message /\ Len(minSleeps) <= 1)

\* the callback never ran, the budget ran out, and blRequest has returned
\* its message without a minimum-duration sleep
C10_Witness ==
  /\ blRequestReturned
  /\ pc = "respond"
  /\ callbacks = 0
  /\ counter = PollLimit
  /\ returned = message
  /\ Len(minSleeps) = 0

(* C11: a failure of a vehicle-client call made while handling a command    *)
(* reaches the caller of processSiriRequest unchanged: when getStatus or    *)
(* getCachedStatus has failed, processSiriRequest has rejected with that    *)
(* very error and has returned no string; and when the processRequest of    *)
(* blRequest or the refresh of getRemoteStatus has failed, no handler       *)
(* result is returned in place of the failure.                              *)
C11_FailuresPropagate ==
  /\ failure # NoFailure =>
       /\ pc = "raised"
       /\ thrown = failure.error
       /\ response = <<>>
  /\ unawaited = "rejected" => pc \notin {"respond", "returned"}

\* the handler processSiriRequest has called in this invocation is fn
handling(fn) == handlerCalls # <<>> /\ handlerCalls[1].function = fn

(* C12: getRemoteStatus starts the refresh getStatus(true, true) exactly    *)
(* once and makes no other client call, in particular no processRequest;    *)
(* it does not wait for the refresh but sleeps once, for 3000 time-units;   *)
(* and whether the refresh is still pending, has completed or has failed,   *)
(* it returns the same fixed sentence, which processSiriRequest returns.    *)
C12_RemoteStatus ==
  handling("getRemoteStatus") =>
    /\ blCalls = <<getStatusCall(TRUE, TRUE)>>
    /\ type = ""
    /\ unawaited \in {"pending", "fulfilled", "rejected"}
    /\ pc \in {"remoteSleep", "respond", "returned"}
    /\ pc = "remoteSleep" => sleeping = RemoteStatusSleep /\ sleeps = <<>>
    /\ pc \in {"respond", "returned"} =>
         /\ sleeps = <<[ms |-> RemoteStatusSleep, at |-> "remoteSleep"]>>
         /\ returned = remoteStatusMessage
    /\ pc = "returned" => response = remoteStatusMessage

\* getRemoteStatus has returned its sentence while the refresh it started
\* is still pending
C12_Witness ==
  /\ handling("getRemoteStatus")
  /\ pc = "returned"
  /\ unawaited = "pending"
  /\ response = remoteStatusMessage
  /\ Len(sleeps) = 1

\* assignments to gotFirstCallback made by the callback: its body is the one
\* statement gotFirstCallback = true, executed each time the client runs it
flagWrites == callbacks

\* a step of one blRequest call in which the client runs the callback: by
\* itself, or inside processRequest
CallbackRuns == inBlRequest /\ inBlRequest' /\ callbacks' = callbacks + 1

\* the callback touches no other variable of blRequest or of its caller
\* (run inside processRequest, the step is also blRequest's advance to its
\* loop), and the steps of blRequest itself leave the flag alone
C13_SharedOnly ==
  /\ CallbackRuns =>
       /\ gotFirstCallback'
       /\ UNCHANGED <<commandMap, type, message, payload, counter, start, duration,
                      now, sleeping, sleeps, returned, response>>
       /\ IF pc = "submit" THEN pc' = "poll" ELSE pc' = pc
  /\ (inBlRequest /\ inBlRequest' /\ ~CallbackRuns) => UNCHANGED gotFirstCallback
  /\ inBlRequest' => (gotFirstCallback' <=> callbacks' > 0)

(* C13 as stated: within one blRequest call the flag is the only state the  *)
(* callback shares with the poll loop, the poll loop only reads it, and the *)
(* callback writes it at most once however often the client runs it.        *)
C13_Original ==
  [][C13_SharedOnly /\ (inBlRequest' => flagWrites' <= 1)]_vars

(* C13 as amended: within one blRequest call the flag is the only state the *)
(* callback shares with the poll loop and the poll loop only reads it; the  *)
(* callback writes true to it on each of its invocations, so the flag       *)
(* changes at most once, from false to true, and never back.                *)
C13_FlagSetOnce ==
  [][/\ C13_SharedOnly
     /\ (inBlRequest /\ inBlRequest' /\ gotFirstCallback) => gotFirstCallback'
     /\ (inBlRequest /\ inBlRequest') => flagWrites' \in {flagWrites, flagWrites + 1}]_vars

\* the client has run the callback twice during one blRequest call, which
\* has returned
C13_Witness ==
  /\ blRequestReturned
  /\ pc = "respond"
  /\ flagWrites = 2
  /\ gotFirstCallback
  /\ firstAck.at = "pollSleep"

(* C14: logging does not affect the result of processSiriRequest: with      *)
(* debugLogging on or off the handler called is that of the earliest        *)
(* matching entry and the string returned is the fallback or the handler's  *)
(* result, and a logger.log call that fails neither changes nor prevents    *)
(* that result (processSiriRequest never rejects with the logger's error).  *)
C14_Step ==
  /\ thrown' # "logger"
  /\ Detects =>
       /\ found' = detectCommand(shortcutParameter', commandMap', 1)
       /\ found' = 0 => (pc' = "returned" /\ response' = unsupported(shortcutParameter'))
       /\ found' # 0 => pc' = "handler"
  /\ (pc = "respond" /\ pc' # "respond") => (pc' = "returned" /\ response' = returned)

C14_LoggingHarmless == [][C14_Step]_vars

(* C15: blRequest calls processRequest exactly once per call, with the type *)
(* and payload it was given.  The call is made when the start time has been *)
(* recorded (it is the present time) and before any sleep of the            *)
(* invocation; until then no request has been made, and from then on, while *)
(* blRequest polls, sleeps and returns, and whatever the callback does and  *)
(* whenever it runs, the requests made remain that single one.              *)
C15_Step ==
  /\ processRequests' # processRequests =>
       \/ processRequests' = <<>>
       \/ /\ pc = "submit"
          /\ processRequests = <<>>
          /\ start = now
          /\ start' = start
          /\ now' = now
          /\ sleeps' = <<>>
          /\ sleeping' = 0
  /\ pc' = "submit" =>
       /\ pc = "handler"
       /\ start' = now'
       /\ processRequests' = <<>>
  /\ (inBlRequest' /\ pc' # "submit") =>
       /\ processRequests' = <<processRequestCall(type', payload')>>
       /\ blCalls'[Len(blCalls')] = processRequestCall(type', payload')

C15_SubmitsOnce == [][C15_Step]_vars

\* the poll budget ran out without a callback and blRequest has returned:
\* one request was made
C15_Witness ==
  /\ blRequestReturned
  /\ pc = "returned"
  /\ callbacks = 0
  /\ counter = PollLimit
  /\ Len(processRequests) = 1
  /\ type = "climate"
  /\ payload # Undefined

(* C16: once the callback has run, blRequest begins no further polling      *)
(* sleep.  When the callback ran inside processRequest, blRequest makes no  *)
(* polling sleep at all and its only sleep is the minimum-duration one;     *)
(* when the callback first ran during the k-th polling sleep, blRequest     *)
(* makes exactly k polling sleeps.                                          *)
C16_NoPollAfterCallback ==
  inBlRequest =>
    /\ firstAck.at = "sync" =>
         /\ pollSleeps = <<>>
         /\ pc # "pollSleep"
         /\ blRequestReturned => sleeps = <<[ms |-> MinDuration, at |-> "minSleep"]>>
    /\ firstAck.at = "pollSleep" =>
         /\ pc = "pollSleep" => Len(pollSleeps) = firstAck.after
         /\ pc # "pollSleep" => Len(pollSleeps) = firstAck.after + 1
    /\ (pc = "pollSleep" /\ gotFirstCallback) => firstAck.after = Len(sleeps)

\* the callback first ran during the third polling sleep, and blRequest has
\* returned after three polling sleeps
C16_Witness ==
  /\ blRequestReturned
  /\ firstAck = [at |-> "pollSleep", after |-> 2]
  /\ Len(pollSleeps) = 3
  /\ Len(minSleeps) = 1

\* text matches one of the built-in entries
matchesBuiltin(text) ==
  \E i \in 1..Len(builtinCommands) : wordsFound(text, builtinCommands[i].words, 1)

(* C17: whatever invocations have been made, the first nine entries of      *)
(* commandMap are the built-in entries in their original order and every    *)
(* entry after them is a custom climate entry; and an input that matches a  *)
(* built-in entry is never dispatched to the handler of a custom preset.    *)
C17_Step ==
  /\ Len(commandMap') >= Len(builtinCommands)
  /\ SubSeq(commandMap', 1, Len(builtinCommands)) = builtinCommands
  /\ \A i \in (Len(builtinCommands) + 1)..Len(commandMap') :
       commandMap'[i].function = "customClimate"
  /\ (Detects /\ found' > Len(builtinCommands)) => ~matchesBuiltin(shortcutParameter')
  /\ (handlerCalls = <<>> /\ handlerCalls' # <<>> /\ matchesBuiltin(shortcutParameter')) =>
       handlerCalls'[1].function # "customClimate"

C17_BuiltinsFirst == [][C17_Step]_vars

\* the list holds three custom entries from earlier invocations, the input
\* names a preset and "unlock", and it is the unlock handler that was called
C17_Witness ==
  /\ Len(commandMap) = Len(builtinCommands) + 3
  /\ shortcutParameter = <<"c","l","i","m","a","t","e"," ","i","n"," ","M","o","d","e"," ","E","c","o"," ","a","n","d"," ","u","n","l","o","c","k">>
  /\ handling("unlock")
  /\ type = "unlock"
  /\ pc = "returned"

\* version l is at least one minor version ahead of version c: l is not
\* below c with its minor number raised by one
minorAhead(l, c) ==
  \/ l.major > c.major
  \/ /\ l.major = c.major
     /\ \/ l.minor > c.minor + 1
        \/ l.minor = c.minor + 1 /\ l.patch >= c.patch

(* C19: promptForUpdate returns true exactly when the latest release (the   *)
(* one its call of getLatestGithubRelease returned) is at                   *)
(* least one minor version (0.1) ahead of the current version, for every    *)
(* pair of versions vMAJOR.MINOR.PATCH, components of two digits and        *)
(* releases of a later major version included.                              *)
C19_PromptForUpdate ==
  \A c \in VersionNumbers, l \in VersionNumbers :
    ( /\ prompt # Undefined
      /\ currentVersion = versionString(c)
      /\ compared = Some(versionString(l)) ) =>
    (prompt[1] <=> minorAhead(l, c))

\* call d began while call c was in progress
overlapping(c, d) ==
  /\ calls[c].pc # "idle"
  /\ calls[d].pc # "idle"
  /\ calls[c].start <= calls[d].start
  /\ calls[c].pc = "done" => calls[d].start < calls[c].doneAt

(* C18: when two blRequest calls overlap, each has its own acknowledgement  *)
(* flag: the flag of a call is set only if the callback of that very call   *)
(* has run, so a call whose own callback has not run leaves its poll loop   *)
(* only with its budget used up; and each call returns its own message, no  *)
(* earlier than 3000 time-units after its own start.                        *)
C18_OwnFlag ==
  \A c \in Calls :
    /\ calls[c].gotFirstCallback <=> calls[c].acked
    /\ (calls[c].pc \in {"minSleep", "done"} /\ ~calls[c].acked) =>
         calls[c].counter = PollLimit
    /\ calls[c].pc = "done" =>
         /\ calls[c].returned = overlapCommand(c).message
         /\ calls[c].doneAt - calls[c].start >= MinDuration

\* the second call began while the first was polling; the callback of the
\* first ran, that of the second never did; the first has returned after
\* 3000 and the second, later, with its poll budget used up
C18_Witness ==
  /\ overlapping(1, 2)
  /\ calls[1].pc = "done"
  /\ calls[2].pc = "done"
  /\ calls[1].acked
  /\ calls[1].counter < PollLimit
  /\ ~calls[2].acked
  /\ calls[2].counter = PollLimit
  /\ calls[2].start - calls[1].start = 750
  /\ calls[1].returned # calls[2].returned
====
